---- MODULE Spec2Model ----
(***************************************************************************)
(* A model of mysql.hpp: the string escaper, the mysql connection object   *)
(* and its mutex, the ownership of MYSQL_STMT / MYSQL_RES handles by Stmt  *)
(* and Result, the parameter binding of Stmt::execute, and the move        *)
(* assignment of Row.  Each component has a specification of its own; the  *)
(* variables of the other components stay at their idle values.            *)
(***************************************************************************)
EXTENDS Integers, Sequences, FiniteSets, TLC

VARIABLES
  \* escape_string
  val, result, escPc,
  \* class mysql, its mutex and the threads calling it
  handle, mutex, pc, seen, nextHandle, connected, closes, leaked, destroyed,
  crashed, op, closedSince, lastClose, unlockedAccess, pingAfterClose,
  nullResPassed, lastQuery,
  \* Stmt and Result objects and the native handles they own
  owning, stmtObj, resObj, nextNative, stmtHandles, moved, stmtClosed,
  resFreed, paramsDeleted, lastMove,
  \* Stmt::execute
  args, frames, store, params, execPc, bound,
  \* Row::operator=(Row&&)
  rows, rowStack, rowPc, rowSrc

escVars  == <<val, result, escPc>>
natVars  == <<nextHandle, connected, closes, leaked>>
histVars == <<closedSince, lastClose, unlockedAccess, pingAfterClose,
              nullResPassed, lastQuery>>
connVars == <<handle, mutex, pc, seen, destroyed, crashed, op, natVars,
              histVars>>
ownVars  == <<owning, stmtObj, resObj, nextNative, stmtHandles, moved, stmtClosed,
              resFreed, paramsDeleted, lastMove>>
execVars == <<args, frames, store, params, execPc, bound>>
rowVars  == <<rows, rowStack, rowPc, rowSrc>>
vars     == <<escVars, connVars, ownVars, execVars, rowVars>>

\* The null pointer; native handles are the positive integers.
NULL == 0

-----------------------------------------------------------------------------
(* escape_string                                                           *)

\* Longest input string of the escaper.
MaxLen == 3

QUOTE  == "QUOTE"
DQUOTE == "DQUOTE"
BSLASH == "BSLASH"
NL     == "NL"
CR     == "CR"
TAB    == "TAB"
VT     == "VT"
FF     == "FF"

\* The case labels of the switch.
Special == {QUOTE, NL, CR, TAB, VT, FF, BSLASH, DQUOTE}

\* The input alphabet: the eight special characters and one ordinary one.
Chars == Special \cup {"a"}

\* size_t arithmetic is modulo 2^64; the model keeps the wrap-around with the
\* largest power of two its integers hold.  Only two facts about the wrapped
\* value of 0 - 1 are used: it is >= 0 and it is >= every string length.
SizeMod == 2^30

\* std::string::at(k), k counted from 0; it throws std::out_of_range unless
\* k < length.
AtThrows(s, k) == ~(k < Len(s))
At(s, k) == s[k + 1]

\* What the if/else chain appends for the special character c.
Rendered(c) ==
  CASE c = NL  -> <<BSLASH, "n">>
    [] c = CR  -> <<BSLASH, "r">>
    [] c = TAB -> <<BSLASH, "t">>
    [] c = FF  -> <<BSLASH, "f">>
    [] c = VT  -> <<BSLASH, "v">>
    [] OTHER   -> <<c>>

\* The value of pev for the iteration i.
Pev(i) == (i - 1) % SizeMod

\* The loop of escape_string from index i on, res being the result so far.
RECURSIVE escape_loop(_, _, _)
escape_loop(s, i, res) ==
  IF ~(i < Len(s)) THEN [threw |-> FALSE, out |-> res]
  ELSE IF At(s, i) \in Special
       THEN IF Pev(i) >= 0
            THEN IF AtThrows(s, Pev(i))
                 THEN [threw |-> TRUE, out |-> <<>>]
                 ELSE escape_loop(s, i + 1,
                        (IF At(s, Pev(i)) # BSLASH
                         THEN res \o <<BSLASH>> ELSE res) \o Rendered(At(s, i)))
            ELSE escape_loop(s, i + 1, res \o <<BSLASH>> \o Rendered(At(s, i)))
       ELSE escape_loop(s, i + 1, res \o <<At(s, i)>>)

escape_string(s) == escape_loop(s, 0, <<>>)

Inputs == UNION {[1..n -> Chars] : n \in 0..MaxLen}

EscIdle == val = <<>> /\ result = <<>> /\ escPc = "idle"

EscInit == val \in Inputs /\ result = <<>> /\ escPc = "call"

\* One call of escape_string(val): it returns result or throws.
EscapeCall ==
  /\ escPc = "call"
  /\ LET r == escape_string(val)
     IN /\ result' = r.out
        /\ escPc' = IF r.threw THEN "thrown" ELSE "returned"
  /\ UNCHANGED <<val, connVars, ownVars, execVars, rowVars>>

-----------------------------------------------------------------------------
(* class mysql: one object, its handle field and its mutex                 *)

\* The threads that call the object's methods.
Threads == {1, 2}

\* How many handles mysql_init can hand out before it returns nullptr.
MaxHandles == 3

Handles == 1..MaxHandles

\* mysql_init(nullptr): a fresh handle, or nullptr when memory is exhausted.
mysql_init == {NULL} \cup (IF nextHandle <= MaxHandles THEN {nextHandle} ELSE {})

\* A handle a native call may not be given: nullptr, or one already passed to
\* mysql_close.
BadHandle(h) == h = NULL \/ closes[h] > 0

\* The outcomes of a native call on h that can bring the process down: none on
\* a valid handle, any (undefined behaviour) on a bad one.
Crashes(h) == IF BadHandle(h) THEN BOOLEAN ELSE {FALSE}

\* The value a thread finds in the handle field when it reads it after an
\* earlier read: the field's current value, or (a data race is undefined
\* behaviour; without the lock the build may keep the first read in a
\* register) the value it read before.
Reread(t) == {handle, seen[t]}

\* A close() that forgets "handle = nullptr".
HandleAfterCloseKept(h) == h

\* close(): "handle = nullptr" after mysql_close(handle).
HandleAfterClose(h) == NULL

\* connect(): "handle = nullptr" after the failed mysql_real_connect.
HandleAfterFailedConnect(h) == NULL

\* connect(): "if (is_open()) close();": where connect goes on after is_open.
\* is_open called on its own returns to the caller.
AfterIsOpen(t, open) ==
  IF op[t] = "connect" THEN (IF open THEN "close_lock" ELSE "connect_lock")
  ELSE "idle"

\* Where close() returns to: connect goes on to its lock_guard, the destructor
\* and a call of close() end.
AfterClose(t) == IF op[t] = "connect" THEN "connect_lock" ELSE "idle"

Running(t) == ~crashed /\ ~destroyed /\ pc[t] = "idle"

\* Thread t goes to next; a method that has returned leaves nothing behind.
Goto(t, next) ==
  /\ pc' = [pc EXCEPT ![t] = next]
  /\ op' = [op EXCEPT ![t] = IF next = "idle" THEN "none" ELSE @]

\* What the last close() found and did: "none" before any close; "first" when
\* no close() and no failed connect had ended since a handle was last stored;
\* else "repeat_nocall" or "repeat_call", by whether it called mysql_close.
CloseKind(calls) ==
  IF ~closedSince THEN "first"
  ELSE IF calls = 0 THEN "repeat_nocall" ELSE "repeat_call"

NoQuery == [path |-> "none", res |-> NULL]

ConnIdle ==
  /\ handle = NULL /\ mutex = 0 /\ pc = [t \in Threads |-> "idle"]
  /\ seen = [t \in Threads |-> NULL] /\ nextHandle = 1 /\ connected = {}
  /\ closes = [h \in Handles |-> 0] /\ leaked = {} /\ destroyed = FALSE
  /\ crashed = FALSE /\ op = [t \in Threads |-> "none"]
  /\ closedSince = FALSE /\ lastClose = "none"
  /\ unlockedAccess = FALSE /\ pingAfterClose = FALSE /\ nullResPassed = FALSE
  /\ lastQuery = NoQuery

\* mysql(): handle(mysql_init(0)).
ConnInit ==
  /\ handle \in {NULL, 1}
  /\ nextHandle = handle + 1
  /\ mutex = 0 /\ pc = [t \in Threads |-> "idle"]
  /\ seen = [t \in Threads |-> NULL] /\ connected = {}
  /\ closes = [h \in Handles |-> 0] /\ leaked = {} /\ destroyed = FALSE
  /\ crashed = FALSE /\ op = [t \in Threads |-> "none"]
  /\ closedSince = FALSE /\ lastClose = "none"
  /\ unlockedAccess = FALSE /\ pingAfterClose = FALSE /\ nullResPassed = FALSE
  /\ lastQuery = NoQuery

\* connect(): the call; its first statement is "if (is_open()) close();".
ConnectCall(t) ==
  /\ Running(t)
  /\ op' = [op EXCEPT ![t] = "connect"]
  /\ pc' = [pc EXCEPT ![t] = "is_open_check"]
  /\ UNCHANGED <<handle, mutex, seen, destroyed, crashed, natVars, histVars>>
  /\ UNCHANGED <<escVars, ownVars, execVars, rowVars>>

\* is_open(), called on its own.
IsOpenCall(t) ==
  /\ Running(t)
  /\ op' = [op EXCEPT ![t] = "is_open"]
  /\ pc' = [pc EXCEPT ![t] = "is_open_check"]
  /\ UNCHANGED <<handle, mutex, seen, destroyed, crashed, natVars, histVars>>
  /\ UNCHANGED <<escVars, ownVars, execVars, rowVars>>

\* is_open(): "if(handle == nullptr) return false;", before the lock is taken.
IsOpenCheck(t) ==
  /\ ~crashed /\ pc[t] = "is_open_check"
  /\ seen' = [seen EXCEPT ![t] = handle]
  /\ unlockedAccess' = (unlockedAccess \/ mutex # t)
  /\ Goto(t, IF handle = NULL THEN AfterIsOpen(t, FALSE) ELSE "is_open_lock")
  /\ UNCHANGED <<handle, mutex, destroyed, crashed, natVars, closedSince,
                 lastClose, pingAfterClose, nullResPassed, lastQuery>>
  /\ UNCHANGED <<escVars, ownVars, execVars, rowVars>>

\* is_open(): the lock_guard.
IsOpenLock(t) ==
  /\ ~crashed /\ pc[t] = "is_open_lock" /\ mutex = 0
  /\ mutex' = t
  /\ pc' = [pc EXCEPT ![t] = "is_open_ping"]
  /\ UNCHANGED <<handle, seen, destroyed, crashed, op, natVars, histVars>>
  /\ UNCHANGED <<escVars, ownVars, execVars, rowVars>>

\* is_open(): "return mysql_ping(handle) == 0;" and the lock_guard's release.
\* The ping succeeds only on a connected handle, and may fail on one.
IsOpenPing(t) ==
  /\ ~crashed /\ pc[t] = "is_open_ping"
  /\ \E h \in Reread(t) :
       /\ pingAfterClose' = (pingAfterClose \/ BadHandle(h))
       /\ crashed' \in Crashes(h)
       /\ \E open \in (IF BadHandle(h) \/ h \in connected THEN BOOLEAN
                       ELSE {FALSE}) :
            Goto(t, AfterIsOpen(t, open))
  /\ mutex' = 0
  /\ seen' = [seen EXCEPT ![t] = NULL]
  /\ UNCHANGED <<handle, destroyed, natVars, closedSince, lastClose,
                 unlockedAccess, nullResPassed, lastQuery>>
  /\ UNCHANGED <<escVars, ownVars, execVars, rowVars>>

\* close(), called on its own.
CloseCall(t) ==
  /\ Running(t)
  /\ op' = [op EXCEPT ![t] = "close"]
  /\ pc' = [pc EXCEPT ![t] = "close_lock"]
  /\ UNCHANGED <<handle, mutex, seen, destroyed, crashed, natVars, histVars>>
  /\ UNCHANGED <<escVars, ownVars, execVars, rowVars>>

\* ~mysql(): "close();".
DestroyCall(t) ==
  /\ Running(t)
  /\ op' = [op EXCEPT ![t] = "destroy"]
  /\ pc' = [pc EXCEPT ![t] = "close_lock"]
  /\ UNCHANGED <<handle, mutex, seen, destroyed, crashed, natVars, histVars>>
  /\ UNCHANGED <<escVars, ownVars, execVars, rowVars>>

\* close(): the lock_guard.
CloseLock(t) ==
  /\ ~crashed /\ pc[t] = "close_lock" /\ mutex = 0
  /\ mutex' = t
  /\ pc' = [pc EXCEPT ![t] = "close_body"]
  /\ UNCHANGED <<handle, seen, destroyed, crashed, op, natVars, histVars>>
  /\ UNCHANGED <<escVars, ownVars, execVars, rowVars>>

\* close(): "if (handle != nullptr) { mysql_close(handle); handle = nullptr; }"
\* and the lock_guard's release; the destructor ends here.
CloseBody(t) ==
  /\ ~crashed /\ pc[t] = "close_body"
  /\ IF handle # NULL
     THEN /\ closes' = [closes EXCEPT ![handle] = @ + 1]
          /\ crashed' \in Crashes(handle)
          /\ handle' = HandleAfterClose(handle)
     ELSE UNCHANGED <<closes, crashed, handle>>
  /\ lastClose' = CloseKind(IF handle # NULL THEN 1 ELSE 0)
  /\ closedSince' = TRUE
  /\ mutex' = 0
  /\ Goto(t, AfterClose(t))
  /\ destroyed' = (op[t] = "destroy")
  /\ UNCHANGED <<seen, nextHandle, connected, leaked, unlockedAccess,
                 pingAfterClose, nullResPassed, lastQuery>>
  /\ UNCHANGED <<escVars, ownVars, execVars, rowVars>>

\* connect(): the lock_guard.
ConnectLock(t) ==
  /\ ~crashed /\ pc[t] = "connect_lock" /\ mutex = 0
  /\ mutex' = t
  /\ pc' = [pc EXCEPT ![t] = "connect_init"]
  /\ UNCHANGED <<handle, seen, destroyed, crashed, op, natVars, histVars>>
  /\ UNCHANGED <<escVars, ownVars, execVars, rowVars>>

\* connect(): "handle = mysql_init(nullptr); if (handle == nullptr) return
\* false;".  A handle still unreleased when the field is overwritten is lost.
ConnectInit(t) ==
  /\ ~crashed /\ pc[t] = "connect_init"
  /\ \E h \in mysql_init :
       /\ handle' = h
       /\ nextHandle' = IF h = NULL THEN nextHandle ELSE nextHandle + 1
       /\ mutex' = IF h = NULL THEN 0 ELSE t
       /\ closedSince' = (h = NULL)
       /\ Goto(t, IF h = NULL THEN "idle" ELSE "connect_real")
  /\ leaked' = leaked \cup (IF BadHandle(handle) THEN {} ELSE {handle})
  /\ UNCHANGED <<seen, destroyed, crashed, connected, closes, lastClose,
                 unlockedAccess, pingAfterClose, nullResPassed, lastQuery>>
  /\ UNCHANGED <<escVars, ownVars, execVars, rowVars>>

\* connect(): mysql_real_connect and what follows it: "return true", or
\* mysql_error, mysql_close(handle), "handle = nullptr", "return false".
ConnectReal(t) ==
  /\ ~crashed /\ pc[t] = "connect_real"
  /\ \E ok \in BOOLEAN :
       IF ok
       THEN /\ connected' = connected \cup {handle}
            /\ UNCHANGED <<handle, closes, closedSince>>
       ELSE /\ closes' = [closes EXCEPT ![handle] = @ + 1]
            /\ handle' = HandleAfterFailedConnect(handle)
            /\ closedSince' = TRUE
            /\ UNCHANGED connected
  /\ mutex' = 0
  /\ Goto(t, "idle")
  /\ UNCHANGED <<seen, destroyed, crashed, nextHandle, leaked, lastClose,
                 unlockedAccess, pingAfterClose, nullResPassed, lastQuery>>
  /\ UNCHANGED <<escVars, ownVars, execVars, rowVars>>

\* insert_id(): "if(handle)", with no lock.
InsertIdCheck(t) ==
  /\ Running(t)
  /\ seen' = [seen EXCEPT ![t] = handle]
  /\ unlockedAccess' = (unlockedAccess \/ mutex # t)
  /\ pc' = [pc EXCEPT ![t] = IF handle # NULL THEN "insert_id_native" ELSE "idle"]
  /\ UNCHANGED <<handle, mutex, destroyed, crashed, op, natVars, closedSince,
                 lastClose, pingAfterClose, nullResPassed, lastQuery>>
  /\ UNCHANGED <<escVars, ownVars, execVars, rowVars>>

\* insert_id(): "return mysql_insert_id(handle);", with no lock.
InsertIdNative(t) ==
  /\ ~crashed /\ pc[t] = "insert_id_native"
  /\ \E h \in Reread(t) : crashed' \in Crashes(h)
  /\ unlockedAccess' = (unlockedAccess \/ mutex # t)
  /\ pc' = [pc EXCEPT ![t] = "idle"]
  /\ seen' = [seen EXCEPT ![t] = NULL]
  /\ UNCHANGED <<handle, mutex, destroyed, op, natVars, closedSince,
                 lastClose, pingAfterClose, nullResPassed, lastQuery>>
  /\ UNCHANGED <<escVars, ownVars, execVars, rowVars>>

\* affected_rows(): "if (handle)", with no lock.
AffectedRowsCheck(t) ==
  /\ Running(t)
  /\ seen' = [seen EXCEPT ![t] = handle]
  /\ unlockedAccess' = (unlockedAccess \/ mutex # t)
  /\ pc' = [pc EXCEPT ![t] = IF handle # NULL THEN "affected_rows_native"
                             ELSE "idle"]
  /\ UNCHANGED <<handle, mutex, destroyed, crashed, op, natVars, closedSince,
                 lastClose, pingAfterClose, nullResPassed, lastQuery>>
  /\ UNCHANGED <<escVars, ownVars, execVars, rowVars>>

\* affected_rows(): "return mysql_affected_rows(handle);", with no lock.
AffectedRowsNative(t) ==
  /\ ~crashed /\ pc[t] = "affected_rows_native"
  /\ \E h \in Reread(t) : crashed' \in Crashes(h)
  /\ unlockedAccess' = (unlockedAccess \/ mutex # t)
  /\ pc' = [pc EXCEPT ![t] = "idle"]
  /\ seen' = [seen EXCEPT ![t] = NULL]
  /\ UNCHANGED <<handle, mutex, destroyed, op, natVars, closedSince,
                 lastClose, pingAfterClose, nullResPassed, lastQuery>>
  /\ UNCHANGED <<escVars, ownVars, execVars, rowVars>>

\* more_results(): "return mysql_more_results(handle);", with no lock and no
\* null check.
MoreResults(t) ==
  /\ Running(t)
  /\ unlockedAccess' = (unlockedAccess \/ mutex # t)
  /\ crashed' \in Crashes(handle)
  /\ UNCHANGED <<handle, mutex, pc, seen, destroyed, op, natVars, closedSince,
                 lastClose, pingAfterClose, nullResPassed, lastQuery>>
  /\ UNCHANGED <<escVars, ownVars, execVars, rowVars>>

\* next_result(): "int x = mysql_next_result(handle); return x;", with no lock
\* and no null check.
NextResult(t) ==
  /\ Running(t)
  /\ unlockedAccess' = (unlockedAccess \/ mutex # t)
  /\ crashed' \in Crashes(handle)
  /\ UNCHANGED <<handle, mutex, pc, seen, destroyed, op, natVars, closedSince,
                 lastClose, pingAfterClose, nullResPassed, lastQuery>>
  /\ UNCHANGED <<escVars, ownVars, execVars, rowVars>>

\* prepare(): the lock_guard.
PrepareLock(t) ==
  /\ Running(t) /\ mutex = 0
  /\ mutex' = t
  /\ pc' = [pc EXCEPT ![t] = "prepare_body"]
  /\ UNCHANGED <<handle, seen, destroyed, crashed, op, natVars, histVars>>
  /\ UNCHANGED <<escVars, ownVars, execVars, rowVars>>

\* prepare(): mysql_stmt_init(handle), which returns nullptr when memory is
\* exhausted, mysql_stmt_prepare on what it returned, the returned Stmt and
\* the lock_guard's release.
PrepareBody(t) ==
  /\ ~crashed /\ pc[t] = "prepare_body"
  /\ \E stmt \in {NULL, 1} :
       crashed' \in (IF BadHandle(handle) \/ stmt = NULL THEN BOOLEAN ELSE {FALSE})
  /\ mutex' = 0
  /\ pc' = [pc EXCEPT ![t] = "idle"]
  /\ UNCHANGED <<handle, seen, destroyed, op, natVars, histVars>>
  /\ UNCHANGED <<escVars, ownVars, execVars, rowVars>>

\* query(): the lock_guard.
QueryLock(t) ==
  /\ Running(t) /\ mutex = 0
  /\ mutex' = t
  /\ pc' = [pc EXCEPT ![t] = "query_real"]
  /\ UNCHANGED <<handle, seen, destroyed, crashed, op, natVars, histVars>>
  /\ UNCHANGED <<escVars, ownVars, execVars, rowVars>>

\* query(): mysql_real_query; on x != 0, mysql_error and "return Result{};",
\* else "return use_result();".
QueryReal(t) ==
  /\ ~crashed /\ pc[t] = "query_real"
  /\ crashed' \in Crashes(handle)
  /\ \E x \in {0, 1} :
       IF x # 0
       THEN /\ lastQuery' = [path |-> "query_failed", res |-> NULL]
            /\ mutex' = 0
            /\ pc' = [pc EXCEPT ![t] = "idle"]
       ELSE /\ pc' = [pc EXCEPT ![t] = "use_result"]
            /\ UNCHANGED <<lastQuery, mutex>>
  /\ UNCHANGED <<handle, seen, destroyed, op, natVars, closedSince, lastClose,
                 unlockedAccess, pingAfterClose, nullResPassed>>
  /\ UNCHANGED <<escVars, ownVars, execVars, rowVars>>

\* The MYSQL_RES* values mysql_use_result returns: nullptr (no result set, or
\* an error) or a result set.
ResultSets == {NULL, 1}

\* use_result(): the pointer its return statement hands to the constructor
\* Result(MYSQL_RES*).  "if (!result) { Result{}; }" builds and drops a
\* temporary and does not return, so "return Result{result};" runs for a null
\* result as well.
UseResultCtorArg(r) == r

\* Result(MYSQL_RES* res): res(res), num_fields(mysql_num_fields(res)): the
\* pointer is handed to mysql_num_fields, which dereferences it.
NumFieldsOnNull(r) == r = NULL

\* use_result(), called by query(): mysql_use_result(handle) and the return.
\* The lock_guard of query() is released on return.
UseResult(t) ==
  /\ ~crashed /\ pc[t] = "use_result"
  /\ \E r \in ResultSets :
       /\ lastQuery' = [path |-> IF r = NULL THEN "no_result_set" ELSE "result_set",
                        res |-> UseResultCtorArg(r)]
       /\ nullResPassed' = (nullResPassed \/ NumFieldsOnNull(UseResultCtorArg(r)))
       /\ crashed' \in (IF BadHandle(handle) \/ NumFieldsOnNull(UseResultCtorArg(r))
                        THEN BOOLEAN ELSE {FALSE})
  /\ mutex' = 0
  /\ pc' = [pc EXCEPT ![t] = "idle"]
  /\ UNCHANGED <<handle, seen, destroyed, op, natVars, closedSince, lastClose,
                 unlockedAccess, pingAfterClose>>
  /\ UNCHANGED <<escVars, ownVars, execVars, rowVars>>

-----------------------------------------------------------------------------
(* Stmt and Result: the owners of MYSQL_STMT* and MYSQL_RES* handles       *)

\* How many Stmt objects and how many Result objects the caller declares.
MaxObjs == 3

\* How many native handles (statements and result sets together) the library
\* hands out.
MaxNative == 3

Objs    == 1..MaxObjs
Natives == 1..MaxNative

\* The last operation, when it was a move: the class, the two objects, the
\* handle the source held and the handle the destination held before it.
NoMove == [kind |-> "none", src |-> 0, dst |-> 0, h |-> NULL, old |-> NULL]

\* A Stmt before its construction; an object is "none" before its constructor
\* runs, "alive" until its destructor runs, and "dead" after.
NoStmt == [state |-> "none", stmt |-> NULL, params |-> NULL]
NoResult == [state |-> "none", res |-> NULL]

\* An object after its destructor: its members are gone.
DeadStmt == [state |-> "dead", stmt |-> NULL, params |-> NULL]
DeadResult == [state |-> "dead", res |-> NULL]

OwnIdle ==
  /\ owning = "none"
  /\ stmtObj = [o \in Objs |-> NoStmt] /\ resObj = [o \in Objs |-> NoResult]
  /\ nextNative = 1 /\ stmtHandles = {} /\ moved = {}
  /\ stmtClosed = [h \in Natives |-> 0]
  /\ resFreed = [h \in Natives |-> 0] /\ paramsDeleted = [h \in Natives |-> 0]
  /\ lastMove = NoMove

\* The caller's objects are all Stmt objects or all Result objects; objects of
\* the two classes share no state.
OwnInit ==
  /\ owning \in {"Stmt", "Result"}
  /\ stmtObj = [o \in Objs |-> NoStmt] /\ resObj = [o \in Objs |-> NoResult]
  /\ nextNative = 1 /\ stmtHandles = {} /\ moved = {}
  /\ stmtClosed = [h \in Natives |-> 0]
  /\ resFreed = [h \in Natives |-> 0] /\ paramsDeleted = [h \in Natives |-> 0]
  /\ lastMove = NoMove

\* Stmt(Stmt&& x) and operator=(Stmt&& x): "x.stmt = 0; x.params = nullptr;".
StmtMovedFrom(x) == [x EXCEPT !.stmt = NULL, !.params = NULL]

\* A move that forgets "r.res = 0;".
ResultMovedFromKept(r) == r

\* Result(Result&& r) and operator=(Result&& r): "r.res = 0;".
ResultMovedFrom(r) == [r EXCEPT !.res = NULL]

\* Stmt::operator=(Stmt&&): what is done with the statement the destination
\* held before the assignment: nothing; stmt is overwritten.
StmtAssignReleases(h) == {}

\* Result::operator=(Result&&): "mysql_free_result(res);" on the result set the
\* destination held; the library ignores a null pointer.
ResultAssignReleases(h) == IF h = NULL THEN {} ELSE {h}

\* One more release of each handle in hs.
Released(count, hs) == [h \in Natives |-> IF h \in hs THEN count[h] + 1 ELSE count[h]]

\* Stmt(): stmt(0), count(0), params(0); what prepare() returns on failure.
StmtDefault(o) ==
  /\ owning = "Stmt" /\ UNCHANGED owning
  /\ stmtObj[o].state = "none"
  /\ stmtObj' = [stmtObj EXCEPT ![o] = [state |-> "alive", stmt |-> NULL,
                                        params |-> NULL]]
  /\ lastMove' = NoMove
  /\ UNCHANGED <<stmtHandles, moved>>
  /\ UNCHANGED <<resObj, nextNative, stmtClosed, resFreed, paramsDeleted>>
  /\ UNCHANGED <<escVars, connVars, execVars, rowVars>>

\* Stmt(MYSQL_STMT* stmt): the statement of a successful prepare() and a new
\* MYSQL_BIND array.
StmtFromHandle(o) ==
  /\ owning = "Stmt" /\ UNCHANGED owning
  /\ stmtObj[o].state = "none" /\ nextNative <= MaxNative
  /\ stmtObj' = [stmtObj EXCEPT ![o] = [state |-> "alive", stmt |-> nextNative,
                                        params |-> nextNative]]
  /\ nextNative' = nextNative + 1
  /\ stmtHandles' = stmtHandles \cup {nextNative}
  /\ UNCHANGED moved
  /\ lastMove' = NoMove
  /\ UNCHANGED <<resObj, stmtClosed, resFreed, paramsDeleted>>
  /\ UNCHANGED <<escVars, connVars, execVars, rowVars>>

\* ~Stmt(): "if (stmt) mysql_stmt_close(stmt); delete [] params;".
StmtDestroy(o) ==
  /\ owning = "Stmt" /\ UNCHANGED owning
  /\ stmtObj[o].state = "alive"
  /\ stmtClosed' = Released(stmtClosed, {stmtObj[o].stmt} \ {NULL})
  /\ paramsDeleted' = Released(paramsDeleted, {stmtObj[o].params} \ {NULL})
  /\ stmtObj' = [stmtObj EXCEPT ![o] = DeadStmt]
  /\ lastMove' = NoMove
  /\ UNCHANGED <<stmtHandles, moved>>
  /\ UNCHANGED <<resObj, nextNative, resFreed>>
  /\ UNCHANGED <<escVars, connVars, execVars, rowVars>>

\* Stmt(Stmt&& x): a new object o built from x.
StmtMoveCtor(o, x) ==
  /\ owning = "Stmt" /\ UNCHANGED owning
  /\ stmtObj[o].state = "none" /\ stmtObj[x].state = "alive"
  /\ stmtObj' = [stmtObj EXCEPT
                   ![o] = [state |-> "alive", stmt |-> stmtObj[x].stmt,
                           params |-> stmtObj[x].params],
                   ![x] = StmtMovedFrom(stmtObj[x])]
  /\ moved' = moved \cup ({stmtObj[x].stmt} \ {NULL})
  /\ UNCHANGED stmtHandles
  /\ lastMove' = [kind |-> "Stmt", src |-> x, dst |-> o, h |-> stmtObj[x].stmt,
                  old |-> NULL]
  /\ UNCHANGED <<resObj, nextNative, stmtClosed, resFreed, paramsDeleted>>
  /\ UNCHANGED <<escVars, connVars, execVars, rowVars>>

\* Stmt& operator=(Stmt&& x), d = std::move(x); d and x may be one object.  The
\* assignments run in the order of the source.
StmtMoveAssign(d, x) ==
  /\ owning = "Stmt" /\ UNCHANGED owning
  /\ stmtObj[d].state = "alive" /\ stmtObj[x].state = "alive"
  /\ LET taken == [stmtObj EXCEPT ![d].stmt = stmtObj[x].stmt,
                                  ![d].params = stmtObj[x].params]
     IN stmtObj' = [taken EXCEPT ![x] = StmtMovedFrom(taken[x])]
  /\ stmtClosed' = Released(stmtClosed, StmtAssignReleases(stmtObj[d].stmt))
  /\ moved' = moved \cup ({stmtObj[x].stmt} \ {NULL})
  /\ UNCHANGED stmtHandles
  /\ lastMove' = [kind |-> "Stmt", src |-> x, dst |-> d, h |-> stmtObj[x].stmt,
                  old |-> stmtObj[d].stmt]
  /\ UNCHANGED <<resObj, nextNative, resFreed, paramsDeleted>>
  /\ UNCHANGED <<escVars, connVars, execVars, rowVars>>

\* Result(): res(0), num_fields(0); what query() returns on failure.
ResultDefault(o) ==
  /\ owning = "Result" /\ UNCHANGED owning
  /\ resObj[o].state = "none"
  /\ resObj' = [resObj EXCEPT ![o] = [state |-> "alive", res |-> NULL]]
  /\ lastMove' = NoMove
  /\ UNCHANGED <<stmtHandles, moved>>
  /\ UNCHANGED <<stmtObj, nextNative, stmtClosed, resFreed, paramsDeleted>>
  /\ UNCHANGED <<escVars, connVars, execVars, rowVars>>

\* Result(MYSQL_RES* res), on a result set mysql_use_result returned.
ResultFromHandle(o) ==
  /\ owning = "Result" /\ UNCHANGED owning
  /\ resObj[o].state = "none" /\ nextNative <= MaxNative
  /\ resObj' = [resObj EXCEPT ![o] = [state |-> "alive", res |-> nextNative]]
  /\ nextNative' = nextNative + 1
  /\ lastMove' = NoMove
  /\ UNCHANGED <<stmtHandles, moved>>
  /\ UNCHANGED <<stmtObj, stmtClosed, resFreed, paramsDeleted>>
  /\ UNCHANGED <<escVars, connVars, execVars, rowVars>>

\* ~Result(): "if (res) mysql_free_result(res);".
ResultDestroy(o) ==
  /\ owning = "Result" /\ UNCHANGED owning
  /\ resObj[o].state = "alive"
  /\ resFreed' = Released(resFreed, {resObj[o].res} \ {NULL})
  /\ resObj' = [resObj EXCEPT ![o] = DeadResult]
  /\ lastMove' = NoMove
  /\ UNCHANGED <<stmtHandles, moved>>
  /\ UNCHANGED <<stmtObj, nextNative, stmtClosed, paramsDeleted>>
  /\ UNCHANGED <<escVars, connVars, execVars, rowVars>>

\* Result(Result&& r): a new object o built from r.
ResultMoveCtor(o, r) ==
  /\ owning = "Result" /\ UNCHANGED owning
  /\ resObj[o].state = "none" /\ resObj[r].state = "alive"
  /\ resObj' = [resObj EXCEPT
                  ![o] = [state |-> "alive", res |-> resObj[r].res],
                  ![r] = ResultMovedFrom(resObj[r])]
  /\ moved' = moved \cup ({resObj[r].res} \ {NULL})
  /\ UNCHANGED stmtHandles
  /\ lastMove' = [kind |-> "Result", src |-> r, dst |-> o, h |-> resObj[r].res,
                  old |-> NULL]
  /\ UNCHANGED <<stmtObj, nextNative, stmtClosed, resFreed, paramsDeleted>>
  /\ UNCHANGED <<escVars, connVars, execVars, rowVars>>

\* Result& operator=(Result&& r), d = std::move(r); d and r may be one object.
\* "mysql_free_result(res); res = r.res; num_fields = r.num_fields; r.res = 0;".
ResultMoveAssign(d, r) ==
  /\ owning = "Result" /\ UNCHANGED owning
  /\ resObj[d].state = "alive" /\ resObj[r].state = "alive"
  /\ resFreed' = Released(resFreed, ResultAssignReleases(resObj[d].res))
  /\ LET taken == [resObj EXCEPT ![d].res = resObj[r].res]
     IN resObj' = [taken EXCEPT ![r] = ResultMovedFrom(taken[r])]
  /\ moved' = moved \cup ({resObj[r].res} \ {NULL})
  /\ UNCHANGED stmtHandles
  /\ lastMove' = [kind |-> "Result", src |-> r, dst |-> d, h |-> resObj[r].res,
                  old |-> resObj[d].res]
  /\ UNCHANGED <<stmtObj, nextNative, stmtClosed, paramsDeleted>>
  /\ UNCHANGED <<escVars, connVars, execVars, rowVars>>

OwnNext ==
  \/ \E o \in Objs : StmtDefault(o)
  \/ \E o \in Objs : StmtFromHandle(o)
  \/ \E o \in Objs : StmtDestroy(o)
  \/ \E o, x \in Objs : StmtMoveCtor(o, x)
  \/ \E d, x \in Objs : StmtMoveAssign(d, x)
  \/ \E o \in Objs : ResultDefault(o)
  \/ \E o \in Objs : ResultFromHandle(o)
  \/ \E o \in Objs : ResultDestroy(o)
  \/ \E o, r \in Objs : ResultMoveCtor(o, r)
  \/ \E d, r \in Objs : ResultMoveAssign(d, r)

-----------------------------------------------------------------------------
(* Stmt::execute(Types ... args) and its recursion _execute(n, x, args...) *)

\* The most arguments of one execute call.
MaxArgs == 3

\* The arguments: an int goes through bind_param(int, const int&), a
\* std::string through bind_param(int, const std::string&).
Values == {[type |-> "LONG", v |-> "7"], [type |-> "LONG", v |-> "8"],
           [type |-> "STRING", v |-> "ab"]}

\* What a read of storage whose lifetime has ended may yield.
Garbage == [type |-> "LONG", v |-> "garbage"]

ExecIdle ==
  /\ args = <<>> /\ frames = <<>> /\ store = <<>> /\ params = <<>>
  /\ execPc = "idle" /\ bound = <<>>

\* A Stmt whose statement has as many parameters as the call has arguments;
\* its params array is zeroed (memset in the constructor).
ExecInit ==
  /\ args \in UNION {[1..n -> Values] : n \in 1..MaxArgs}
  /\ frames = <<>> /\ store = <<>>
  /\ params = [i \in 1..Len(args) |-> NULL]
  /\ execPc = "call" /\ bound = <<>>

\* The parameters of a function taken by value: new objects in the frame of
\* the call, copied from the caller's objects at the locations from.
ByValue(from, frame) ==
  [i \in 1..Len(from) |-> [val |-> store[from[i]].val, alive |-> TRUE,
                           frame |-> frame]]

\* Where the new objects are.
NewLocs(k) == [i \in 1..k |-> Len(store) + i]

\* "const T& x": x is the first object of the caller's pack itself.
XRefersTo(pack) == Head(pack)

\* "Types ... args" of _execute: the rest of the caller's pack, by value.
RestOf(pack) == Tail(pack)

\* bind_param(i, x): b.buffer = (char*)&x for an int, (char*)x.c_str() for a
\* string: in both a pointer into the object x refers to.
BufferOf(x) == x

\* The end of a call: the objects of its frame are destroyed.
EndFrame(st, frame) ==
  [l \in 1..Len(st) |-> IF st[l].frame = frame THEN [st[l] EXCEPT !.alive = FALSE]
                        ELSE st[l]]

\* execute(args...): the arguments are copied into its parameters; it is about
\* to call _execute(0, args...).
ExecuteCall ==
  /\ execPc = "call"
  /\ store' = [i \in 1..Len(args) |-> [val |-> args[i], alive |-> TRUE, frame |-> 1]]
  /\ frames' = <<[fn |-> "execute", n |-> 0, pack |-> [i \in 1..Len(args) |-> i]]>>
  /\ execPc' = "calling"
  /\ UNCHANGED <<args, params, bound>>
  /\ UNCHANGED <<escVars, connVars, ownVars, rowVars>>

\* The call _execute(n, x, args...) from the frame on top, whose pack is not
\* empty, and "bind_param(n, x);" in it.
Execute_Recurse ==
  /\ execPc = "calling"
  /\ LET top  == frames[Len(frames)]
         n    == Len(frames) - 1
         here == Len(frames) + 1
     IN /\ top.pack # <<>>
        /\ store' = store \o ByValue(RestOf(top.pack), here)
        /\ frames' = Append(frames, [fn |-> "_execute", n |-> n,
                                     pack |-> NewLocs(Len(RestOf(top.pack)))])
        /\ params' = [params EXCEPT ![n + 1] = BufferOf(XRefersTo(top.pack))]
  /\ UNCHANGED <<args, execPc, bound>>
  /\ UNCHANGED <<escVars, connVars, ownVars, rowVars>>

\* The call _execute(n) of the base case, which does nothing and returns.
Execute_Base ==
  /\ execPc = "calling"
  /\ frames[Len(frames)].pack = <<>>
  /\ execPc' = "returning"
  /\ UNCHANGED <<args, frames, store, params, bound>>
  /\ UNCHANGED <<escVars, connVars, ownVars, rowVars>>

\* The return of one _execute(n, x, args...).
Execute_Return ==
  /\ execPc = "returning"
  /\ store' = EndFrame(store, Len(frames))
  /\ frames' = SubSeq(frames, 1, Len(frames) - 1)
  /\ execPc' = IF Len(frames) = 2 THEN "attach" ELSE "returning"
  /\ UNCHANGED <<args, params, bound>>
  /\ UNCHANGED <<escVars, connVars, ownVars, rowVars>>

\* What the library reads through a slot's buffer pointer.
ReadThrough(loc) == IF store[loc].alive THEN {store[loc].val}
                    ELSE Values \cup {Garbage}

\* "mysql_stmt_bind_param(stmt, params); mysql_stmt_execute(stmt);" and the
\* return of execute.
ExecuteNative ==
  /\ execPc = "attach"
  /\ bound' \in [1..Len(params) -> Values \cup {Garbage}]
  /\ \A i \in 1..Len(params) : bound'[i] \in ReadThrough(params[i])
  /\ store' = EndFrame(store, 1)
  /\ frames' = <<>>
  /\ execPc' = "executed"
  /\ UNCHANGED <<args, params>>
  /\ UNCHANGED <<escVars, connVars, ownVars, rowVars>>

ExecNext ==
  \/ ExecuteCall
  \/ Execute_Recurse
  \/ Execute_Base
  \/ Execute_Return
  \/ ExecuteNative

-----------------------------------------------------------------------------
(* Row::operator=(Row&&), which swaps the object with its argument         *)

\* The depth of nested calls at which the stack is exhausted.
MaxDepth == 4

\* The rows a Row can view: none, or a row and its length array.
NoRow == [row |-> NULL, lengths |-> NULL]
RowViews == {NoRow} \cup [row : 1..2, lengths : 1..2]

\* The objects: 1 is the destination (the object of the outermost call), 2 the
\* source (its x), 2 + k the local tmp of std::swap in the call at depth k.
Dst == 1
Src == 2
TmpOf(depth) == 2 + depth

RowIdle == rows = <<>> /\ rowStack = <<>> /\ rowPc = "idle" /\ rowSrc = NoRow

RowInit ==
  /\ rows \in [{Dst, Src} -> RowViews]
  /\ rowStack = <<>>
  /\ rowPc = "call"
  /\ rowSrc = rows[Src]

\* Row(Row&& x): row(x.row), lengths(x.lengths), then x.row = nullptr and
\* x.lengths = nullptr: object to is built from object from.
RowMoveCtor(rs, to, from) ==
  [o \in (DOMAIN rs) \cup {to} |->
     IF o = to THEN rs[from] ELSE IF o = from THEN NoRow ELSE rs[o]]

\* The frame of a call of Row::operator=(Row&& x) on self; it is inside
\* the std::swap it calls, at the statement at.
RowFrame(self, x) == [self |-> self, x |-> x, at |-> "tmp"]

\* The caller's statement "dst = std::move(src);".
RowAssignCall ==
  /\ rowPc = "call"
  /\ rowStack' = <<RowFrame(Dst, Src)>>
  /\ rowPc' = "running"
  /\ UNCHANGED <<rows, rowSrc>>
  /\ UNCHANGED <<escVars, connVars, ownVars, execVars>>

\* Which assignment operator "a = std::move(b)" inside std::swap<Row> runs:
\* Row declares no swap of its own, so the swap it calls is std::swap, and the
\* only assignment of a Row from an rvalue is Row::operator=(Row&&).
SwapAssigns(self, x) == RowFrame(self, x)

\* The next statement of the call on top of the stack.  std::swap(a, b) is
\* "T tmp(std::move(a)); a = std::move(b); b = std::move(tmp);"; then
\* operator= does "return *this;".
RowStep ==
  /\ rowPc = "running"
  /\ LET depth == Len(rowStack)
         top   == rowStack[depth]
         under == SubSeq(rowStack, 1, depth - 1)
     IN CASE top.at = "tmp" ->
               /\ rows' = RowMoveCtor(rows, TmpOf(depth), top.self)
               /\ rowStack' = Append(under, [top EXCEPT !.at = "assign_a"])
               /\ rowPc' = rowPc
          [] top.at = "assign_a" /\ depth < MaxDepth ->
               /\ rowStack' = Append(Append(under, [top EXCEPT !.at = "assign_b"]),
                                     SwapAssigns(top.self, top.x))
               /\ UNCHANGED <<rows, rowPc>>
          [] top.at = "assign_b" /\ depth < MaxDepth ->
               /\ rowStack' = Append(Append(under, [top EXCEPT !.at = "return"]),
                                     SwapAssigns(top.x, TmpOf(depth)))
               /\ UNCHANGED <<rows, rowPc>>
          [] top.at = "return" ->
               /\ rowStack' = under
               /\ rowPc' = IF depth = 1 THEN "done" ELSE rowPc
               /\ rows' = rows
          [] OTHER -> FALSE
  /\ UNCHANGED rowSrc
  /\ UNCHANGED <<escVars, connVars, ownVars, execVars>>

\* A call with the stack exhausted ends the process.
RowStackOverflow ==
  /\ rowPc = "running"
  /\ Len(rowStack) = MaxDepth
  /\ rowStack[MaxDepth].at \in {"assign_a", "assign_b"}
  /\ rowPc' = "overflow"
  /\ UNCHANGED <<rows, rowStack, rowSrc>>
  /\ UNCHANGED <<escVars, connVars, ownVars, execVars>>

RowNext == RowAssignCall \/ RowStep \/ RowStackOverflow

-----------------------------------------------------------------------------
(* The specifications                                                      *)

EscNext == EscapeCall

\* escape_string on every input of at most MaxLen characters.
InitEsc == EscInit /\ ConnIdle /\ OwnIdle /\ ExecIdle /\ RowIdle

SpecEsc == InitEsc /\ [][EscNext]_vars

\* One thread constructs a mysql object, calls connect and close on it in any
\* order, and destroys it.
LifeNext ==
  \E t \in {1} :
    \/ ConnectCall(t) \/ IsOpenCheck(t) \/ IsOpenLock(t) \/ IsOpenPing(t)
    \/ CloseCall(t) \/ DestroyCall(t) \/ CloseLock(t) \/ CloseBody(t)
    \/ ConnectLock(t) \/ ConnectInit(t) \/ ConnectReal(t)

InitLife == EscIdle /\ ConnInit /\ OwnIdle /\ ExecIdle /\ RowIdle

SpecLife == InitLife /\ [][LifeNext]_vars

\* Two threads call the methods of one mysql object.
ThreadsNext ==
  \E t \in Threads :
    \/ ConnectCall(t) \/ IsOpenCall(t) \/ IsOpenCheck(t) \/ IsOpenLock(t)
    \/ IsOpenPing(t) \/ CloseCall(t) \/ CloseLock(t) \/ CloseBody(t)
    \/ ConnectLock(t) \/ ConnectInit(t) \/ ConnectReal(t)
    \/ InsertIdCheck(t) \/ InsertIdNative(t)
    \/ AffectedRowsCheck(t) \/ AffectedRowsNative(t)
    \/ MoreResults(t) \/ NextResult(t)
    \/ PrepareLock(t) \/ PrepareBody(t)
    \/ QueryLock(t) \/ QueryReal(t) \/ UseResult(t)

InitThreads == EscIdle /\ ConnInit /\ OwnIdle /\ ExecIdle /\ RowIdle

SpecThreads == InitThreads /\ [][ThreadsNext]_vars

\* Stmt and Result objects are constructed, moved and destroyed in any order.
InitOwn == EscIdle /\ ConnIdle /\ OwnInit /\ ExecIdle /\ RowIdle

SpecOwn == InitOwn /\ [][OwnNext]_vars

\* One call of Stmt::execute.
InitExec == EscIdle /\ ConnIdle /\ OwnIdle /\ ExecInit /\ RowIdle

SpecExec == InitExec /\ [][ExecNext]_vars

\* One move assignment of a Row.
InitRow == EscIdle /\ ConnIdle /\ OwnIdle /\ ExecIdle /\ RowInit

SpecRow == InitRow /\ [][RowNext]_vars

-----------------------------------------------------------------------------
(* The claims                                                              *)

\* C1: over any sequence of construction, connect, close and destruction of
\* one mysql object, every handle obtained from mysql_init is passed to
\* mysql_close before the handle field is overwritten or the object is
\* destroyed: no handle is lost by an overwrite, and once the object is
\* destroyed every handle handed out has been closed.
C1_EveryHandleReleased ==
  /\ leaked = {}
  /\ destroyed => \A h \in 1..(nextHandle - 1) : closes[h] >= 1

\* C2: no thread reads the handle field or passes it to a native call while
\* it does not hold the mutex, and is_open never gives mysql_ping a handle
\* that a close() has released and set to nullptr.
C2_HandleOnlyUnderLock == ~unlockedAccess /\ ~pingAfterClose

\* C3: close() is idempotent: no handle is passed to mysql_close more than
\* once, and a close() (called directly, or by the destructor) that follows a
\* close() or a failed connect makes no native call.
C3_CloseIdempotent ==
  /\ \A h \in Handles : closes[h] <= 1
  /\ lastClose # "repeat_call"

\* C3's case: a close() after a close() or a failed connect has returned, a
\* handle having been released before it.
C3_SecondCloseDone ==
  /\ lastClose = "repeat_nocall"
  /\ \E h \in Handles : closes[h] = 1

\* C4: a Stmt that owns a statement handle and is move-assigned from another
\* Stmt has that handle closed by the assignment, and once every Stmt object
\* is destroyed every statement handle has been passed to mysql_stmt_close
\* exactly once.
C4_StmtHandlesReleasedOnce ==
  /\ (lastMove.kind = "Stmt" /\ lastMove.src # lastMove.dst /\ lastMove.old # NULL)
        => stmtClosed[lastMove.old] = 1
  /\ (\A o \in Objs : stmtObj[o].state = "dead")
        => \A h \in stmtHandles : stmtClosed[h] = 1

\* C5: a move of a Stmt or of a Result from one object to another leaves the
\* source falsy and the destination owning the handle the source had, and no
\* native handle is released twice, whatever moves and destructions follow.
C5_MoveTransfersOwnership ==
  /\ (lastMove.kind = "Stmt" /\ lastMove.src # lastMove.dst)
        => /\ stmtObj[lastMove.src].stmt = NULL
           /\ stmtObj[lastMove.dst].stmt = lastMove.h
  /\ (lastMove.kind = "Result" /\ lastMove.src # lastMove.dst)
        => /\ resObj[lastMove.src].res = NULL
           /\ resObj[lastMove.dst].res = lastMove.h
  /\ \A h \in Natives : stmtClosed[h] <= 1 /\ resFreed[h] <= 1

\* C5's case: a result set was moved from one Result to another, and the
\* source and the destination have both been destroyed.
C5_MovedThenDestroyed ==
  /\ \A o \in Objs : resObj[o].state # "alive"
  /\ \E h \in moved : resFreed[h] = 1

\* C6: when mysql_real_query fails, or succeeds and mysql_use_result returns
\* null, query returns a Result that holds no handle, and no null result
\* handle is passed to a native call.
C6_QueryFailsSoftly ==
  /\ ~nullResPassed
  /\ lastQuery.path \in {"query_failed", "no_result_set"} => lastQuery.res = NULL

\* Reading s from position i, each backslash consuming the character after
\* it: no quote outside such a pair, and no backslash left alone at the end.
RECURSIVE WellEscapedFrom(_, _)
WellEscapedFrom(s, i) ==
  IF i > Len(s) THEN TRUE
  ELSE IF s[i] = BSLASH THEN (i < Len(s) /\ WellEscapedFrom(s, i + 2))
  ELSE IF s[i] \in {QUOTE, DQUOTE} THEN FALSE
  ELSE WellEscapedFrom(s, i + 1)

\* C7: for every input, the output of escape_string holds no single or double
\* quote outside a backslash pair and does not end in a lone backslash.
C7_NoUnescapedQuote == escPc = "returned" => WellEscapedFrom(result, 1)

\* The letter form of a control character; any other character is itself.
LetterForm(c) ==
  CASE c = NL -> "n" [] c = CR -> "r" [] c = TAB -> "t" [] c = FF -> "f"
    [] c = VT -> "v" [] OTHER -> c

\* The one-character-lookback reference: a special character gets a backslash
\* before it unless the input character before it is a backslash (at index 0
\* always), and is rendered in its letter form; any other character is copied.
Reference(s) ==
  LET piece(i) ==
        IF s[i] \in Special
        THEN (IF i = 1 \/ s[i - 1] # BSLASH THEN <<BSLASH>> ELSE <<>>)
             \o <<LetterForm(s[i])>>
        ELSE <<s[i]>>
      upto[i \in 0..Len(s)] == IF i = 0 THEN <<>> ELSE upto[i - 1] \o piece(i)
  IN upto[Len(s)]

\* C8: escape_string returns normally for every input and its output is that
\* of the one-character-lookback reference.
C8_MatchesReference ==
  escPc \in {"returned", "thrown"}
     => escPc = "returned" /\ result = Reference(val)

\* C9: when execute attaches the binding array and runs the statement, every
\* slot i points at storage that is alive and holds argument i, and the
\* library reads the arguments' values.
C9_SlotsAliveAtExecute ==
  /\ execPc = "attach"
        => \A i \in 1..Len(args) : /\ params[i] # NULL
                                   /\ store[params[i]].alive
                                   /\ store[params[i]].val = args[i]
  /\ execPc = "executed" => bound = args

\* C10: a move assignment of a Row ends after a bounded number of steps, with
\* the destination viewing the source's row and lengths, and never enters
\* Row::operator= again through std::swap.
C10_RowMoveAssignTerminates ==
  /\ Len(rowStack) <= 1
  /\ rowPc # "overflow"
  /\ rowPc = "done" => rows[Dst] = rowSrc

====
